---------------------------- MODULE Spec2Model ----------------------------
(***************************************************************************)
(* tasmota-exporter: the outlet registry parser (parseOutlets), the        *)
(* startup path of main, and the Prometheus collector                      *)
(* (TasmotaCollector.Collect with its per-outlet goroutines and            *)
(* probeTasmota), modelled from src/main.go.                               *)
(*                                                                         *)
(* Strings are sequences of one-character strings.  Float64 values are     *)
(* integers (the unit is irrelevant: the code never computes with them,    *)
(* it only compares Power with 0 and copies).                              *)
(***************************************************************************)
EXTENDS Integers, Sequences, FiniteSets, TLC

\* ------------------------------------------------------------------ bounds

\* Longest -outlets flag value that SpecParse enumerates.
MaxLen == 8

\* Per-outlet goroutines launched over one run of the process, by all Collect
\* invocations (scrapes) together: with 2, one scrape of two outlets, or two
\* scrapes (one after the other or overlapping) of one outlet.
MaxTasks == 2

\* ----------------------------------------------------------------- strings

\* The characters the enumerated flag values are made of: two letters, the
\* white space that strings.TrimSpace removes, and the two separators.
Alphabet == {"a", "b", " ", ":", ","}

Strings(n) == UNION {[1..k -> Alphabet] : k \in 0..n}

\* unicode.IsSpace, on the alphabet above
IsSpace(c) == c = " "

RECURSIVE TrimLeft(_)
TrimLeft(s) ==
  IF s # <<>> /\ IsSpace(Head(s)) THEN TrimLeft(Tail(s)) ELSE s

RECURSIVE TrimRight(_)
TrimRight(s) ==
  IF s # <<>> /\ IsSpace(s[Len(s)]) THEN TrimRight(SubSeq(s, 1, Len(s) - 1)) ELSE s

\* strings.TrimSpace
TrimSpace(s) == TrimRight(TrimLeft(s))

\* strings.Split(s, sep) for a one-character separator: the pieces between
\* the separators, in order; a string without separator is one piece (also
\* the empty string: Split("", ",") is [""]).
RECURSIVE Split(_, _)
Split(s, sep) ==
  IF \E i \in 1..Len(s) : s[i] = sep
  THEN LET i == CHOOSE k \in 1..Len(s) : s[k] = sep /\ \A j \in 1..(k - 1) : s[j] # sep
       IN  <<SubSeq(s, 1, i - 1)>> \o Split(SubSeq(s, i + 1, Len(s)), sep)
  ELSE <<s>>

\* ------------------------------------------------------------ parseOutlets

\* type Outlet struct { Name string; IP string }
Outlet(name, ip) == [Name |-> name, IP |-> ip]

\* One iteration of the loop with the length test weakened to "at least two
\* parts": a third part is silently dropped.
parseEntry_two_or_more(outletStr0) ==
  LET outletStr == TrimSpace(outletStr0)
      parts     == Split(outletStr, ":")
  IN  IF outletStr = <<>> \/ Len(parts) < 2 THEN <<>>
      ELSE LET name == TrimSpace(parts[1])
               ip   == TrimSpace(parts[2])
           IN  IF name = <<>> \/ ip = <<>> THEN <<>> ELSE <<Outlet(name, ip)>>

\* One iteration of the loop that takes the address as it stands after the
\* colon, without trimming it.
parseEntry_untrimmed_ip(outletStr0) ==
  LET outletStr == TrimSpace(outletStr0)
      parts     == Split(outletStr, ":")
  IN  IF outletStr = <<>> THEN <<>>
      ELSE IF Len(parts) # 2 THEN <<>>
      ELSE LET name == TrimSpace(parts[1])
               ip   == parts[2]
           IN  IF name = <<>> \/ ip = <<>> THEN <<>> ELSE <<Outlet(name, ip)>>

\* One iteration of the loop of parseOutlets: what the entry appends to
\* outlets, <<>> on each of the three `continue` paths.
parseEntry(outletStr0) ==
  LET outletStr == TrimSpace(outletStr0)
      parts     == Split(outletStr, ":")
  IN  IF outletStr = <<>> THEN <<>>
      ELSE IF Len(parts) # 2 THEN <<>>
      ELSE LET name == TrimSpace(parts[1])
               ip   == TrimSpace(parts[2])
           IN  IF name = <<>> \/ ip = <<>> THEN <<>> ELSE <<Outlet(name, ip)>>

RECURSIVE parseLoop(_, _)
parseLoop(entries, outlets0) ==
  IF entries = <<>> THEN outlets0
  ELSE parseLoop(Tail(entries), outlets0 \o parseEntry(Head(entries)))

\* A loop that stops at the first entry that yields no outlet (`break`
\* where the code has `continue`).
RECURSIVE parseLoop_break(_, _)
parseLoop_break(entries, outlets0) ==
  IF entries = <<>> THEN outlets0
  ELSE IF parseEntry(Head(entries)) = <<>> THEN outlets0
  ELSE parseLoop_break(Tail(entries), outlets0 \o parseEntry(Head(entries)))

parseOutlets_break(outletsStr) == parseLoop_break(Split(outletsStr, ","), <<>>)

\* func parseOutlets(outletsStr string) []Outlet
parseOutlets(outletsStr) == parseLoop(Split(outletsStr, ","), <<>>)


\* ----------------------------------------------------------- configuration

str_a   == <<"a", ":", "x">>
str_b   == <<"b", ":", "y">>
str_a2  == <<"a", ":", "y">>

\* The -outlets flag values the collector is run with: one outlet, two
\* outlets, two outlets sharing a name, a value with white space and an
\* empty entry, and the values main rejects (flag not given, no valid entry).
Configs ==
  { str_a,
    str_a \o <<",">> \o str_b,
    str_a \o <<",">> \o str_a2,
    <<" ", "a", " ", ":", "x", ",", ",">>,
    <<"a", ":">>,
    <<>> }

\* ------------------------------------------------------------------ gauges

\* The twelve GaugeVecs of NewTasmotaCollector, by metric name, in the order
\* in which the success path of a per-outlet goroutine handles them.
GaugeOrder ==
  << "tasmota_up", "tasmota_on", "tasmota_voltage_volts",
     "tasmota_current_amperes", "tasmota_power_watts",
     "tasmota_apparent_power_voltamperes",
     "tasmota_reactive_power_voltamperesreactive", "tasmota_power_factor",
     "tasmota_today_kwh_total", "tasmota_yesterday_kwh_total",
     "tasmota_kwh_total", "tasmota_temperature_celsius" >>

NumGauges == Len(GaugeOrder)

GaugeNames == {GaugeOrder[k] : k \in 1..NumGauges}

\* A GaugeVec without children.
NoChildren == [l \in {} |-> 0]

\* A vector whose children keep the first value set (a Set that acts on a
\* new child only).
SetChild_keep_first(vec, label, v) ==
  [l \in (DOMAIN vec) \cup {label} |-> IF l \in DOMAIN vec THEN vec[l] ELSE v]

\* GaugeVec.WithLabelValues(label) followed by Gauge.Set(v): the child is
\* created on first use and then holds the last value set.
SetChild(vec, label, v) ==
  [l \in (DOMAIN vec) \cup {label} |-> IF l = label THEN v ELSE vec[l]]

\* Gauge.Write, what the registry reads from a gauge it was sent.
ReadChild(vec, label) == vec[label]

\* ------------------------------------------------- device response, parsing

\* The numeric leaves of TasmotaStatus (StatusSNS.ENERGY.* and
\* StatusSNS.ESP32.Temperature).
StatusFields ==
  { "Total", "Yesterday", "Today", "Power", "ApparentPower", "ReactivePower",
    "Factor", "Voltage", "Current", "Temperature" }

\* The zero value of TasmotaStatus.
ZeroStatus == [f \in StatusFields |-> 0]

\* A response body: text that is no JSON, a JSON array, or a JSON object.
\* Of an object, leaves holds the leaves that are present with a number and
\* other names the leaves present with a value that is no number.
BodyText    == [kind |-> "text",   leaves |-> NoChildren, other |-> {}]
BodyArray   == [kind |-> "array",  leaves |-> NoChildren, other |-> {}]

\* The readings of the mock device of TestTasmotaCollector_Smoke, in tenths.
FullLeaves ==
  [f \in StatusFields |->
     CASE f = "Total" -> 15          [] f = "Yesterday" -> 8
       [] f = "Today" -> 7           [] f = "Power" -> 452
       [] f = "ApparentPower" -> 500 [] f = "ReactivePower" -> 200
       [] f = "Factor" -> 9          [] f = "Voltage" -> 2400
       [] f = "Current" -> 2         [] f = "Temperature" -> 425]

\* The object bodies: every leaf present; the same with a power of zero and
\* with a negative power; the same without the Power and the Temperature
\* leaf (a device without ESP32 block that reports no power); and one whose
\* Power is no number (a device that reports an array of phases).
BodyFull    == [kind |-> "object", other |-> {}, leaves |-> FullLeaves]
BodyOff     == [kind |-> "object", other |-> {},
                leaves |-> [FullLeaves EXCEPT !["Power"] = 0]]
BodyNeg     == [kind |-> "object", other |-> {},
                leaves |-> [FullLeaves EXCEPT !["Power"] = -5]]
BodyPartial == [kind |-> "object", other |-> {},
                leaves |-> [f \in StatusFields \ {"Power", "Temperature"} |-> FullLeaves[f]]]
BodyBadType == [kind |-> "object", other |-> {"Power"},
                leaves |-> [f \in StatusFields \ {"Power"} |-> FullLeaves[f]]]

\* What a device (or whatever listens at the address) may answer: status
\* code and body.  The code is carried in the response and never read.
Responses ==
  { [code |-> 200, body |-> b] :
      b \in {BodyFull, BodyOff, BodyNeg, BodyPartial, BodyText, BodyArray, BodyBadType} }
  \cup { [code |-> 500, body |-> BodyText], [code |-> 401, body |-> BodyPartial] }

\* json.Unmarshal(body, &status): an error for text that is no JSON, for a
\* JSON value that is no object and for a leaf that is no number; otherwise
\* the leaves that are present, the others keeping the zero value.
Unmarshal(body) ==
  IF body.kind # "object" \/ body.other # {}
  THEN [err |-> TRUE, status |-> ZeroStatus]
  ELSE [err |-> FALSE,
        status |-> [f \in StatusFields |->
                      IF f \in DOMAIN body.leaves THEN body.leaves[f] ELSE 0]]


\* ------------------------------------------------------------------- state

VARIABLES
  flagOutlets,  \* main: the value of the -outlets flag
  mainpc,       \* main: "start", "serving" (collector registered), "exit"
  outlets,      \* TasmotaCollector.outlets
  gaugeVec,     \* the GaugeVecs of the collector: metric name -> label -> value
  started,      \* Collect invocations so far
  collect,      \* per invocation: position of Collect and its WaitGroup counter
  task,         \* per invocation: the goroutines launched, in launch order
  ch            \* per invocation and goroutine: what it sent on ch, as read by the registry

vars == <<flagOutlets, mainpc, outlets, gaugeVec, started, collect, task, ch>>

\* Collect invocations: each launches at least one goroutine (main never
\* registers an empty collector).
Scrapes == 1..MaxTasks

\* Goroutines of invocation s that were launched.
Tasks(s) == 1..Len(task[s])

\* Goroutines that the invocations so far have launched or will launch.
Launched == started * Len(outlets)

\* --------------------------------------------------------------------- main

InitCommon ==
  /\ mainpc = "start"
  /\ outlets = <<>>
  /\ gaugeVec = [g \in GaugeNames |-> NoChildren]
  /\ started = 0
  /\ collect = [s \in Scrapes |-> [pc |-> "idle", wg |-> 0]]
  /\ task = [s \in Scrapes |-> <<>>]
  /\ ch = [s \in Scrapes |-> <<>>]

Init == flagOutlets \in Configs /\ InitCommon

InitParse == flagOutlets \in Strings(MaxLen) /\ InitCommon

\* main, lines 279-282: the flag is required.
MainFlagMissing ==
  /\ mainpc = "start"
  /\ flagOutlets = <<>>
  /\ mainpc' = "exit"
  /\ UNCHANGED <<flagOutlets, outlets, gaugeVec, started, collect, task, ch>>

\* main, lines 284-288: no valid outlet configuration.
MainNoOutlets ==
  /\ mainpc = "start"
  /\ flagOutlets # <<>>
  /\ Len(parseOutlets(flagOutlets)) = 0
  /\ mainpc' = "exit"
  /\ UNCHANGED <<flagOutlets, outlets, gaugeVec, started, collect, task, ch>>

\* A main without the test of lines 285-288: it serves whatever parseOutlets
\* returned.
MainServe_unchecked ==
  /\ mainpc = "start"
  /\ flagOutlets # <<>>
  /\ outlets' = parseOutlets(flagOutlets)
  /\ mainpc' = "serving"
  /\ UNCHANGED <<flagOutlets, gaugeVec, started, collect, task, ch>>

\* main, lines 284-300: the collector is created with the parsed outlets,
\* registered and served.
MainServe ==
  /\ mainpc = "start"
  /\ flagOutlets # <<>>
  /\ Len(parseOutlets(flagOutlets)) # 0
  /\ outlets' = parseOutlets(flagOutlets)
  /\ mainpc' = "serving"
  /\ UNCHANGED <<flagOutlets, gaugeVec, started, collect, task, ch>>

\* ------------------------------------------------------------------ Collect

\* wg.Add(1), wg.Done(), and the condition on which wg.Wait() returns
wgAdd(w) == w + 1

\* A goroutine that ends without wg.Done().
wgDone_missing(w) == w

wgDone(w) == w - 1

\* A Wait that does not wait.
wgWaitReturns_always(w) == TRUE

wgWaitReturns(w) == w = 0

\* A goroutine as `go func(outlet Outlet)` starts it: about to call
\* probeTasmota with a fresh context.
NewTask(outlet) ==
  [outlet |-> outlet, pc |-> "do", k |-> 0, code |-> 0, body |-> BodyText,
   err |-> "none", expired |-> FALSE, status |-> ZeroStatus]

\* The registry calls Collect (one scrape).  Scrapes may overlap: every
\* request to /metrics gathers on its own goroutine.
StartCollect ==
  /\ mainpc = "serving"
  /\ Launched + Len(outlets) <= MaxTasks
  /\ started' = started + 1
  /\ collect' = [collect EXCEPT ![started + 1] = [pc |-> "loop", wg |-> 0]]
  /\ UNCHANGED <<flagOutlets, mainpc, outlets, gaugeVec, task, ch>>

\* A loop that polls the outlets one after the other: the next goroutine is
\* started when those before it have ended.
Launch_sequential(s) ==
  /\ collect[s].pc = "loop"
  /\ \A j \in Tasks(s) : task[s][j].pc = "done"
  /\ LET i == Len(task[s]) + 1
     IN  /\ task' = [task EXCEPT ![s] = Append(@, NewTask(outlets[i]))]
         /\ ch' = [ch EXCEPT ![s] = Append(@, <<>>)]
         /\ collect' = [collect EXCEPT ![s] =
                          [pc |-> IF i = Len(outlets) THEN "wait" ELSE "loop",
                           wg |-> wgAdd(@.wg)]]
  /\ UNCHANGED <<flagOutlets, mainpc, outlets, gaugeVec, started>>

\* One iteration of the loop, lines 123-125 and 199: wg.Add(1), then the
\* goroutine is started with the outlet as its argument.
Launch(s) ==
  /\ collect[s].pc = "loop"
  /\ LET i == Len(task[s]) + 1
     IN  /\ task' = [task EXCEPT ![s] = Append(@, NewTask(outlets[i]))]
         /\ ch' = [ch EXCEPT ![s] = Append(@, <<>>)]
         /\ collect' = [collect EXCEPT ![s] =
                          [pc |-> IF i = Len(outlets) THEN "wait" ELSE "loop",
                           wg |-> wgAdd(@.wg)]]
  /\ UNCHANGED <<flagOutlets, mainpc, outlets, gaugeVec, started>>

\* Line 203: wg.Wait() returns and Collect with it.
Return(s) ==
  /\ collect[s].pc = "wait"
  /\ wgWaitReturns(collect[s].wg)
  /\ collect' = [collect EXCEPT ![s].pc = "returned"]
  /\ UNCHANGED <<flagOutlets, mainpc, outlets, gaugeVec, started, task, ch>>

\* The registry has gathered what the invocation sent; the invocation's
\* goroutines, WaitGroup and channel are gone.
Gathered(s) ==
  /\ collect[s].pc = "returned"
  /\ collect' = [collect EXCEPT ![s] = [pc |-> "gathered", wg |-> 0]]
  /\ task' = [task EXCEPT ![s] = <<>>]
  /\ ch' = [ch EXCEPT ![s] = <<>>]
  /\ UNCHANGED <<flagOutlets, mainpc, outlets, gaugeVec, started>>


\* ------------------------------------------------- the per-outlet goroutine

\* Line 133: err != nil
Failed(t) == t.err # "none"

\* Lines 150-158: the value set on tasmota_on.
onValue(status) == IF status.Power > 0 THEN 1 ELSE 0

\* Lines 145-198: the value the k-th block of the success path sets on its
\* gauge (GaugeOrder[k]).
SuccessValue(k, status) ==
  CASE k = 1 -> 1
    [] k = 2 -> onValue(status)
    [] k = 3 -> status.Voltage
    [] k = 4 -> status.Current
    [] k = 5 -> status.Power
    [] k = 6 -> status.ApparentPower
    [] k = 7 -> status.ReactivePower
    [] k = 8 -> status.Factor
    [] k = 9 -> status.Today
    [] k = 10 -> status.Yesterday
    [] k = 11 -> status.Total
    [] k = 12 -> status.Temperature

\* The gauge and the value of the block the goroutine is in: the only block
\* of the failure path (lines 136-138) or the k-th of the success path.
\* A success path whose first two blocks are swapped: tasmota_on before
\* tasmota_up.
BlockGauge_on_first(t) ==
  IF Failed(t) THEN "tasmota_up"
  ELSE IF t.k = 1 THEN "tasmota_on"
  ELSE IF t.k = 2 THEN "tasmota_up"
  ELSE GaugeOrder[t.k]

\* A failure path that sets tasmota_on, not tasmota_up, to 0.
BlockGauge_failure_on(t) == IF Failed(t) THEN "tasmota_on" ELSE GaugeOrder[t.k]

BlockGauge(t) == IF Failed(t) THEN "tasmota_up" ELSE GaugeOrder[t.k]

\* A failure path that sets tasmota_up as the success path does.
BlockValue_failure_one(t) == SuccessValue(t.k, t.status)

BlockValue(t) == IF Failed(t) THEN 0 ELSE SuccessValue(t.k, t.status)

\* A failure path without its `return`: it falls through to the blocks of
\* the success path.
LastBlock_no_return(t) == t.k = NumGauges

\* The block is the last one: the `return` of line 139, or line 198.
LastBlock(t) == Failed(t) \/ t.k = NumGauges

\* client.Do (line 216) returns a response: the headers have arrived, the
\* body is still to be read.
DoResponds(s, i, r) ==
  /\ task[s][i].pc = "do"
  /\ task' = [task EXCEPT ![s][i].pc = "read", ![s][i].code = r.code, ![s][i].body = r.body]
  /\ UNCHANGED <<flagOutlets, mainpc, outlets, gaugeVec, started, collect, ch>>

\* Lines 210-219: the request cannot be created or client.Do returns an
\* error (connection refused, no route, ...).
DoFails(s, i) ==
  /\ task[s][i].pc = "do"
  /\ task' = [task EXCEPT ![s][i].pc = "set", ![s][i].k = 1, ![s][i].err = "request"]
  /\ UNCHANGED <<flagOutlets, mainpc, outlets, gaugeVec, started, collect, ch>>

\* Lines 222-225: io.ReadAll returns an error.
ReadFails(s, i) ==
  /\ task[s][i].pc = "read"
  /\ task' = [task EXCEPT ![s][i].pc = "set", ![s][i].k = 1, ![s][i].err = "read",
                          ![s][i].body = BodyText]
  /\ UNCHANGED <<flagOutlets, mainpc, outlets, gaugeVec, started, collect, ch>>

\* A goroutine that tries once more when the deadline ends its first attempt.
Expire_retry(s, i) ==
  /\ task[s][i].pc \in {"do", "read"}
  /\ ~task[s][i].expired
  /\ task' = [task EXCEPT ![s][i].pc = "do", ![s][i].expired = TRUE,
                          ![s][i].body = BodyText]
  /\ UNCHANGED <<flagOutlets, mainpc, outlets, gaugeVec, started, collect, ch>>

\* Line 128: the context of this goroutine reaches its deadline while the
\* request or the reading of the body is in flight; the pending call returns
\* the context's error.
Expire(s, i) ==
  /\ task[s][i].pc \in {"do", "read"}
  /\ task' = [task EXCEPT ![s][i].pc = "set", ![s][i].k = 1,
                          ![s][i].err = IF task[s][i].pc = "do" THEN "request" ELSE "read",
                          ![s][i].expired = TRUE,
                          ![s][i].body = BodyText]
  /\ UNCHANGED <<flagOutlets, mainpc, outlets, gaugeVec, started, collect, ch>>

\* Lines 222-235: the body has been read; json.Unmarshal decides between
\* the status and a parse error.  probeTasmota returns.
ReadDone(s, i) ==
  /\ task[s][i].pc = "read"
  /\ LET u == Unmarshal(task[s][i].body)
     IN  task' = [task EXCEPT ![s][i].pc = "set", ![s][i].k = 1,
                              ![s][i].err = IF u.err THEN "parse" ELSE "none",
                              ![s][i].status = u.status,
                              ![s][i].body = BodyText]
  /\ UNCHANGED <<flagOutlets, mainpc, outlets, gaugeVec, started, collect, ch>>

\* xGauge.WithLabelValues(outlet.Name) and Set(value) of the current block.
SetGauge(s, i) ==
  /\ task[s][i].pc = "set"
  /\ LET t == task[s][i]
         g == BlockGauge(t)
     IN  gaugeVec' = [gaugeVec EXCEPT ![g] = SetChild(@, t.outlet.Name, BlockValue(t))]
  /\ task' = [task EXCEPT ![s][i].pc = "collect"]
  /\ UNCHANGED <<flagOutlets, mainpc, outlets, started, collect, ch>>

\* xMetric.Collect(ch) of the current block: the gauge is sent on ch and the
\* registry reads its value (here: as soon as it is sent).  Then the next
\* block, or the end of the function.
CollectGauge(s, i) ==
  /\ task[s][i].pc = "collect"
  /\ LET t == task[s][i]
         g == BlockGauge(t)
     IN  /\ ch' = [ch EXCEPT ![s][i] =
                     Append(@, [metric |-> g, outlet |-> t.outlet.Name,
                                value |-> ReadChild(gaugeVec[g], t.outlet.Name)])]
         /\ task' = [task EXCEPT ![s][i].pc = IF LastBlock(t) THEN "return" ELSE "set",
                                 ![s][i].k = IF LastBlock(t) THEN @ ELSE @ + 1]
  /\ UNCHANGED <<flagOutlets, mainpc, outlets, gaugeVec, started, collect>>

\* The goroutine returns: the deferred cancel() and wg.Done() run
\* (lines 126, 129).
TaskReturn(s, i) ==
  /\ task[s][i].pc = "return"
  /\ task' = [task EXCEPT ![s][i].pc = "done"]
  /\ collect' = [collect EXCEPT ![s].wg = wgDone(@)]
  /\ UNCHANGED <<flagOutlets, mainpc, outlets, gaugeVec, started, ch>>

\* ---------------------------------------------------------- specifications

Next ==
  \/ MainFlagMissing
  \/ MainNoOutlets
  \/ MainServe
  \/ StartCollect
  \/ \E s \in Scrapes : Launch(s)
  \/ \E s \in Scrapes : Return(s)
  \/ \E s \in Scrapes : Gathered(s)
  \/ \E s \in Scrapes : \E i \in Tasks(s) : \E r \in Responses : DoResponds(s, i, r)
  \/ \E s \in Scrapes : \E i \in Tasks(s) : DoFails(s, i)
  \/ \E s \in Scrapes : \E i \in Tasks(s) : ReadFails(s, i)
  \/ \E s \in Scrapes : \E i \in Tasks(s) : Expire(s, i)
  \/ \E s \in Scrapes : \E i \in Tasks(s) : ReadDone(s, i)
  \/ \E s \in Scrapes : \E i \in Tasks(s) : SetGauge(s, i)
  \/ \E s \in Scrapes : \E i \in Tasks(s) : CollectGauge(s, i)
  \/ \E s \in Scrapes : \E i \in Tasks(s) : TaskReturn(s, i)

\* The process: startup, then scrapes.
Spec == Init /\ [][Next]_vars

NextParse ==
  \/ MainFlagMissing
  \/ MainNoOutlets
  \/ MainServe

\* The startup alone, over every flag value of at most MaxLen characters.
SpecParse == InitParse /\ [][NextParse]_vars


\* ---------------------------------------------------------- fair scheduling

\* The steps of goroutine i of invocation s.
TaskStep(s, i) ==
  \/ \E r \in Responses : DoResponds(s, i, r)
  \/ DoFails(s, i)
  \/ ReadFails(s, i)
  \/ Expire(s, i)
  \/ ReadDone(s, i)
  \/ SetGauge(s, i)
  \/ CollectGauge(s, i)
  \/ TaskReturn(s, i)

\* The Go scheduler runs every runnable goroutine eventually; a pending
\* request or read ends, at the latest when the context expires; the
\* registry drains ch, so no send blocks for ever.  Nothing forces a scrape
\* to be requested or the process to start.
Fairness ==
  /\ \A s \in Scrapes : WF_vars(Launch(s)) /\ WF_vars(Return(s))
  /\ \A s \in Scrapes : \A i \in 1..MaxTasks : WF_vars(i \in Tasks(s) /\ TaskStep(s, i))

FairSpec == Init /\ [][Next]_vars /\ Fairness

\* ------------------------------------------------------ claims: vocabulary

\* The goroutine has executed its last block.
Finished(t) == t.pc \in {"return", "done"}

\* Observations goroutine i of invocation s sent for metric g.
ObsOf(s, i, g) == {n \in 1..Len(ch[s][i]) : ch[s][i][n].metric = g}

\* No other registered outlet has the name of outlet i.  (Two outlets that
\* share a name share their gauges: that case is claim C17's.)
UniqueName(i) == \A j \in 1..Len(outlets) : j # i => outlets[j].Name # outlets[i].Name

UpZero(name) == [metric |-> "tasmota_up", outlet |-> name, value |-> 0]

\* The field of the status that each measurement gauge reports.
FieldOf ==
  [g \in GaugeNames \ {"tasmota_up", "tasmota_on"} |->
     CASE g = "tasmota_voltage_volts" -> "Voltage"
       [] g = "tasmota_current_amperes" -> "Current"
       [] g = "tasmota_power_watts" -> "Power"
       [] g = "tasmota_apparent_power_voltamperes" -> "ApparentPower"
       [] g = "tasmota_reactive_power_voltamperesreactive" -> "ReactivePower"
       [] g = "tasmota_power_factor" -> "Factor"
       [] g = "tasmota_today_kwh_total" -> "Today"
       [] g = "tasmota_yesterday_kwh_total" -> "Yesterday"
       [] g = "tasmota_kwh_total" -> "Total"
       [] g = "tasmota_temperature_celsius" -> "Temperature"]

\* ---------------------------------------------------------------- claim C1

\* C1: an outlet whose probe fails in a scrape yields exactly one
\* observation in that scrape, tasmota_up = 0 labelled with the outlet's
\* name, and no observation of any other gauge.
C1_FailedProbeOnlyUpZero ==
  \A s \in Scrapes : \A i \in Tasks(s) :
    LET t == task[s][i]
    IN  (Failed(t) /\ UniqueName(i)) =>
          /\ Len(ch[s][i]) <= 1
          /\ \A n \in 1..Len(ch[s][i]) : ch[s][i][n] = UpZero(outlets[i].Name)
          /\ Finished(t) => Len(ch[s][i]) = 1

\* ---------------------------------------------------------------- claim C2

\* C2: an outlet whose probe succeeds yields exactly 12 observations, one of
\* each gauge, each labelled with the outlet's configured name, with
\* tasmota_up = 1.
C2_ReachableTwelve ==
  \A s \in Scrapes : \A i \in Tasks(s) :
    LET t == task[s][i]
    IN  (~Failed(t) /\ Finished(t) /\ UniqueName(i)) =>
          /\ Len(ch[s][i]) = 12
          /\ \A g \in GaugeNames : Cardinality(ObsOf(s, i, g)) = 1
          /\ \A n \in 1..Len(ch[s][i]) : ch[s][i][n].outlet = outlets[i].Name
          /\ \A n \in ObsOf(s, i, "tasmota_up") : ch[s][i][n].value = 1

\* ---------------------------------------------------------------- claim C3

RECURSIVE SumLen(_)
SumLen(seqs) == IF seqs = <<>> THEN 0 ELSE Len(Head(seqs)) + SumLen(Tail(seqs))

\* A scrape that has returned holds one tasmota_up observation per registered
\* outlet and 12 observations per succeeding and 1 per failing outlet.
C3_Counts ==
  \A s \in Scrapes :
    collect[s].pc = "returned" =>
      /\ Len(task[s]) = Len(outlets)
      /\ \A i \in Tasks(s) : Cardinality(ObsOf(s, i, "tasmota_up")) = 1
      /\ SumLen(ch[s]) = 12 * Cardinality({i \in Tasks(s) : ~Failed(task[s][i])})
                         + Cardinality({i \in Tasks(s) : Failed(task[s][i])})

\* Goroutine i of invocation s takes a step as, or becoming, the goroutine
\* of a failed probe.
FailedStep(s, i) == i \in Tasks(s) /\ TaskStep(s, i) /\ Failed(task'[s][i])

\* The step leaves the observations of goroutine j of invocation s2 as they
\* are: those it has sent, and the one it has set and is about to send.
KeepsObservations(s2, j) ==
  /\ ch'[s2][j] = ch[s2][j]
  /\ task[s2][j].pc = "collect" =>
       LET g == BlockGauge(task[s2][j])
       IN  ReadChild(gaugeVec'[g], outlets[j].Name) = ReadChild(gaugeVec[g], outlets[j].Name)

C3_IsolationAnyName ==
  \A s \in Scrapes : \A i \in 1..Len(outlets) :
    FailedStep(s, i) =>
      \A s2 \in Scrapes : \A j \in Tasks(s2) : j # i => KeepsObservations(s2, j)

C3_IsolationOtherName ==
  \A s \in Scrapes : \A i \in 1..Len(outlets) :
    FailedStep(s, i) =>
      \A s2 \in Scrapes : \A j \in Tasks(s2) :
        outlets[j].Name # outlets[i].Name => KeepsObservations(s2, j)

\* C3 as claimed: the counts of a returned scrape, and no step of the
\* goroutine of a failed probe removes or changes an observation of another
\* registered outlet.
C3_IsolationAndCompleteness_AnyOutlet ==
  []C3_Counts /\ [][C3_IsolationAnyName]_vars

\* C3: the counts of a returned scrape, and no step of the goroutine of a
\* failed probe removes or changes an observation of an outlet with another
\* name.
C3_IsolationAndCompleteness ==
  []C3_Counts /\ [][C3_IsolationOtherName]_vars

\* A scrape of two outlets with different names has returned, one probe
\* failed, the other succeeded: 13 observations.
C3_Witness ==
  \E s \in Scrapes :
    /\ collect[s].pc = "returned"
    /\ Len(task[s]) = 2
    /\ outlets[1].Name # outlets[2].Name
    /\ Failed(task[s][1]) /\ ~Failed(task[s][2])
    /\ SumLen(ch[s]) = 13

\* ---------------------------------------------------------------- claim C4

\* C4: under fair scheduling every Collect invocation returns, whatever the
\* outcomes of its probes.
C4_CollectReturns ==
  \A s \in Scrapes : (collect[s].pc = "loop") ~> (collect[s].pc = "returned")

\* A scrape of two outlets has returned with every probe failed, one of them
\* by its deadline.
C4_Witness ==
  \E s \in Scrapes :
    /\ collect[s].pc = "returned"
    /\ Len(task[s]) = 2
    /\ \A i \in Tasks(s) : Failed(task[s][i])
    /\ \E i \in Tasks(s) : task[s][i].expired

\* ---------------------------------------------------------------- claim C5

\* The WaitGroup counter is the number of goroutines launched and not yet
\* ended, and a Collect that has returned has launched a goroutine for every
\* outlet and each has ended.
C5_Barrier ==
  \A s \in Scrapes :
    /\ collect[s].pc \in {"loop", "wait", "returned"} =>
         collect[s].wg = Cardinality({i \in Tasks(s) : task[s][i].pc # "done"})
    /\ collect[s].pc = "returned" =>
         /\ Len(task[s]) = Len(outlets)
         /\ \A i \in Tasks(s) : task[s][i].pc = "done"

\* Nothing is sent on the channel of an invocation that has returned.
C5_NoLateSend ==
  \A s \in Scrapes :
    (collect[s].pc = "returned" /\ collect'[s].pc = "returned") => ch'[s] = ch[s]

\* C5: Collect returns only after every goroutine it launched has ended (the
\* counter counts each launch once and each end once, on the failure and on
\* the success path), and nothing is sent after the return.
C5_JoinBarrier == []C5_Barrier /\ [][C5_NoLateSend]_vars

\* A Collect has returned whose goroutines took the failure path and the
\* success path.
C5_Witness ==
  \E s \in Scrapes :
    /\ collect[s].pc = "returned"
    /\ collect[s].wg = 0
    /\ Len(task[s]) = 2
    /\ Failed(task[s][1]) /\ ~Failed(task[s][2])
    /\ \A i \in Tasks(s) : task[s][i].pc = "done"

\* ---------------------------------------------------------------- claim C6

\* C6: every tasmota_on observation is 1 if the Power of the status its
\* probe returned is greater than zero and 0 otherwise.
C6_OnIffPowerPositive ==
  \A s \in Scrapes : \A i \in Tasks(s) : \A n \in ObsOf(s, i, "tasmota_on") :
    UniqueName(i) =>
      /\ ch[s][i][n].value \in {0, 1}
      /\ ch[s][i][n].value = 1 <=> task[s][i].status.Power > 0

\* ---------------------------------------------------------------- claim C7

\* C7: every measurement observation carries the value of its own field of
\* the status that the probe of this scrape returned.
C7_ValueFidelity ==
  \A s \in Scrapes : \A i \in Tasks(s) : \A n \in 1..Len(ch[s][i]) :
    LET o == ch[s][i][n]
    IN  (UniqueName(i) /\ o.metric \in DOMAIN FieldOf) =>
          o.value = task[s][i].status[FieldOf[o.metric]]

\* ----------------------------------------------------- claims C8 and C9

\* The entries of a flag value, read off the positions of its commas: entry
\* k lies between the (k-1)-th and the k-th comma.
CommaAt(str) == {p \in 1..Len(str) : str[p] = ","}

EntryCount(str) == Cardinality(CommaAt(str)) + 1

EntryStart(str, k) ==
  IF k = 1 THEN 1
  ELSE 1 + CHOOSE p \in CommaAt(str) : Cardinality({q \in CommaAt(str) : q < p}) = k - 2

EntryEnd(str, k) ==
  IF k = EntryCount(str) THEN Len(str)
  ELSE (CHOOSE p \in CommaAt(str) : Cardinality({q \in CommaAt(str) : q < p}) = k - 1) - 1

EntryAt(str, k) == SubSeq(str, EntryStart(str, k), EntryEnd(str, k))

\* A string without the white space around it: from its first to its last
\* character that is no white space.
Stripped(e) ==
  LET ink == {p \in 1..Len(e) : e[p] # " "}
  IN  IF ink = {} THEN <<>>
      ELSE SubSeq(e, CHOOSE p \in ink : \A q \in ink : p <= q,
                     CHOOSE p \in ink : \A q \in ink : q <= p)

ColonAt(e) == {p \in 1..Len(e) : e[p] = ":"}

\* The entry is non-empty after trimming, has exactly two ':'-separated
\* parts and both are non-empty after trimming: exactly one colon, something
\* other than white space before it and after it.
Accepted(e) ==
  /\ Cardinality(ColonAt(e)) = 1
  /\ \E c \in ColonAt(e) :
       /\ \E p \in 1..(c - 1) : e[p] # " "
       /\ \E p \in (c + 1)..Len(e) : e[p] # " "

\* The outlet of an accepted entry: (trimmed name, trimmed address).
OutletOf(e) ==
  LET c == CHOOSE p \in ColonAt(e) : TRUE
  IN  [Name |-> Stripped(SubSeq(e, 1, c - 1)), IP |-> Stripped(SubSeq(e, c + 1, Len(e)))]

AcceptedEntries(str) == {k \in 1..EntryCount(str) : Accepted(EntryAt(str, k))}

\* The k-th accepted entry, in input order.
NthAccepted(str, n) ==
  CHOOSE k \in AcceptedEntries(str) :
    Cardinality({m \in AcceptedEntries(str) : m < k}) = n - 1

\* The four inputs of TestParseOutlets that yield nothing: "", "invalid",
\* "livingroom:", ":192.168.1.100" (in the letters of Alphabet).
RejectedSamples == { <<>>, <<"a", "b">>, <<"a", ":">>, <<":", "b">> }

\* main has parsed the flag (or has exited on its being empty): outlets is
\* parseOutlets(flagOutlets).
Parsed == mainpc # "start"

\* C8: an entry yields an outlet if and only if it is accepted, and then the
\* outlet is (trimmed name, trimmed address): the outlets are those of the
\* accepted entries and no others, a flag of one entry yields its outlet or
\* nothing, and the four sample inputs yield nothing.
C8_EntryAcceptance ==
  Parsed =>
    /\ {outlets[n] : n \in 1..Len(outlets)}
         = {OutletOf(EntryAt(flagOutlets, k)) : k \in AcceptedEntries(flagOutlets)}
    /\ EntryCount(flagOutlets) = 1 =>
         outlets = IF Accepted(flagOutlets) THEN <<OutletOf(flagOutlets)>> ELSE <<>>
    /\ flagOutlets \in RejectedSamples => outlets = <<>>

\* An entry with white space around the name, the address and the entry was
\* accepted and trimmed.
C8_Witness ==
  /\ mainpc = "serving"
  /\ flagOutlets = <<" ", "a", " ", ":", " ", "b", " ">>
  /\ outlets = <<[Name |-> <<"a">>, IP |-> <<"b">>]>>

\* C9: the output is the sequence of the outlets of the accepted entries in
\* input order, duplicates included: as long as the number of accepted
\* entries, the n-th output being the outlet of the n-th accepted entry.
C9_OrderPreserved ==
  Parsed =>
    /\ Len(outlets) = Cardinality(AcceptedEntries(flagOutlets))
    /\ \A n \in 1..Len(outlets) :
         outlets[n] = OutletOf(EntryAt(flagOutlets, NthAccepted(flagOutlets, n)))

\* A malformed entry between two accepted entries was skipped, and the
\* second accepted entry, a duplicate of the first, was kept.
C9_Witness ==
  /\ mainpc = "serving"
  /\ flagOutlets = <<"a", ":", "b", ",", ",", "a", ":", "b">>
  /\ outlets = <<[Name |-> <<"a">>, IP |-> <<"b">>], [Name |-> <<"a">>, IP |-> <<"b">>]>>

\* --------------------------------------------------------------- claim C10

\* C10: an outlet whose device answered with a status code outside 200..299
\* yields exactly one observation, tasmota_up = 0.
C10_HttpErrorIsFailure ==
  \A s \in Scrapes : \A i \in Tasks(s) :
    LET t == task[s][i]
    IN  (t.code # 0 /\ t.code \notin 200..299 /\ t.pc \notin {"do", "read"}) =>
          /\ Len(ch[s][i]) <= 1
          /\ \A n \in 1..Len(ch[s][i]) : ch[s][i][n] = UpZero(outlets[i].Name)
          /\ Finished(t) => Len(ch[s][i]) = 1

\* --------------------------------------------------------------- claim C11

\* A goroutine whose context expired before probeTasmota returned took the
\* failure path: its outlet yields tasmota_up = 0 and nothing else.
C11_ExpiredIsFailure ==
  \A s \in Scrapes : \A i \in Tasks(s) :
    LET t == task[s][i]
    IN  (t.expired /\ UniqueName(i)) =>
          /\ Failed(t)
          /\ Len(ch[s][i]) <= 1
          /\ \A n \in 1..Len(ch[s][i]) : ch[s][i][n] = UpZero(outlets[i].Name)
          /\ Finished(t) => Len(ch[s][i]) = 1

\* The step in which the probe of goroutine i of invocation s fails (by its
\* deadline or otherwise) leaves every other goroutine where it is, with the
\* response, error and status it has.
C11_NoCrossCancel ==
  \A s \in Scrapes : \A i \in Tasks(s) :
    (TaskStep(s, i) /\ ~Failed(task[s][i]) /\ Failed(task'[s][i])) =>
      \A s2 \in Scrapes : \A j \in Tasks(s2) :
        <<s2, j>> # <<s, i>> => task'[s2][j] = task[s2][j]

\* C11: a probe whose deadline expires before it has completed is a failed
\* probe (the outlet yields only tasmota_up = 0), and the expiry or failure
\* of one probe does not cancel or change another goroutine's probe.
C11_PerProbeDeadline == []C11_ExpiredIsFailure /\ [][C11_NoCrossCancel]_vars

\* --------------------------------------------------------------- claim C12

MeasurementGauges == DOMAIN FieldOf

\* Outlet i was reachable in an earlier scrape, which has returned: its
\* label has a stored value in every gauge.
ReachableBefore(s, i) ==
  /\ \E s1 \in Scrapes : s1 < s /\ collect[s1].pc \in {"returned", "gathered"}
  /\ \A g \in GaugeNames : outlets[i].Name \in DOMAIN gaugeVec[g]

\* C12 as claimed: the output of a scrape in which the probe of an outlet
\* failed that was reachable before holds, with the outlet's tasmota_up, its
\* measurement gauges at the values the last successful scrape left.
C12_StaleValuesExposed ==
  \A s \in Scrapes : \A i \in Tasks(s) :
    (collect[s].pc = "returned" /\ Failed(task[s][i]) /\ ReachableBefore(s, i)) =>
      \A g \in MeasurementGauges :
        \E n \in ObsOf(s, i, g) :
          ch[s][i][n].value = ReadChild(gaugeVec[g], outlets[i].Name)

\* The goroutine of a failed probe sends tasmota_up once and no other gauge.
C12_OnlyUpSent ==
  \A s \in Scrapes : \A i \in Tasks(s) :
    Failed(task[s][i]) =>
      /\ Len(ch[s][i]) <= 1
      /\ \A n \in 1..Len(ch[s][i]) : ch[s][i][n].metric = "tasmota_up"
      /\ Finished(task[s][i]) => Len(ch[s][i]) = 1

\* A step of the goroutine of a failed probe leaves every stored measurement
\* value and tasmota_on as it is, and its Set stores tasmota_up = 0.
C12_StoredKept ==
  \A s \in Scrapes : \A i \in Tasks(s) :
    FailedStep(s, i) =>
      /\ \A g \in GaugeNames \ {"tasmota_up"} : gaugeVec'[g] = gaugeVec[g]
      /\ SetGauge(s, i) => ReadChild(gaugeVec'["tasmota_up"], outlets[i].Name) = 0

\* C12: the output of a scrape in which the probe of an outlet failed holds
\* for the outlet its tasmota_up observation only; the measurement values of
\* the last successful scrape stay stored in the gauges (the failed probe
\* stores tasmota_up = 0 and nothing else) but are not sent.
C12_StaleValuesStoredNotSent == []C12_OnlyUpSent /\ [][C12_StoredKept]_vars

\* A scrape in which the outlet was reachable has been gathered, the next
\* has returned with its probe failed: one observation sent, the power of
\* the earlier scrape still stored.
C12_Witness ==
  /\ collect[1].pc = "gathered"
  /\ collect[2].pc = "returned"
  /\ Failed(task[2][1])
  /\ Len(ch[2][1]) = 1
  /\ ReachableBefore(2, 1)
  /\ ReadChild(gaugeVec["tasmota_power_watts"], outlets[1].Name) = 452
  /\ ReadChild(gaugeVec["tasmota_up"], outlets[1].Name) = 0

\* --------------------------------------------------------------- claim C13

\* C13: the loop of Collect starts the next goroutine whatever the state of
\* the goroutines it has started (it waits for none of them), and a goroutine
\* whose probe has returned sets and sends its gauges whatever the state of
\* the others.
C13_FanOut ==
  \A s \in Scrapes :
    /\ collect[s].pc = "loop" => ENABLED Launch(s)
    /\ \A i \in Tasks(s) :
         task[s][i].pc \in {"set", "collect"} =>
           ENABLED (SetGauge(s, i) \/ CollectGauge(s, i))

\* The second of two outlets has sent its 12 observations while the probe of
\* the first, started before it, is still in flight (so both probes were in
\* flight at once when the second was started).
C13_Witness ==
  \E s \in Scrapes :
    /\ Len(outlets) = 2
    /\ Len(task[s]) = 2
    /\ task[s][1].pc = "do"
    /\ ~Failed(task[s][2]) /\ Finished(task[s][2])
    /\ Len(ch[s][2]) = 12

\* --------------------------------------------------------------- claim C14

\* The goroutines of an invocation are those of the first entries of the
\* registry, one each and in order; once the loop is over, of all entries.
C14_OneTaskPerEntry ==
  \A s \in Scrapes :
    /\ Len(task[s]) <= Len(outlets)
    /\ \A i \in Tasks(s) : task[s][i].outlet = outlets[i]
    /\ collect[s].pc \in {"wait", "returned"} => Len(task[s]) = Len(outlets)

\* The request of a goroutine is issued when the goroutine starts and never
\* again: no step takes a goroutine back to its request or to the reading of
\* the response, a failed probe stays failed, and the outlet stays the same.
C14_NoRetry ==
  \A s \in Scrapes : \A i \in Tasks(s) :
    i <= Len(task'[s]) =>
      /\ task'[s][i].pc = "do" => task[s][i].pc = "do"
      /\ task[s][i].pc \notin {"do", "read"} => task'[s][i].pc \notin {"do", "read"}
      /\ Failed(task[s][i]) => Failed(task'[s][i]) /\ task'[s][i].err = task[s][i].err
      /\ task'[s][i].outlet = task[s][i].outlet

\* C14: a Collect invocation starts one goroutine per entry of the registry,
\* for that entry's outlet; each goroutine issues its request once, and a
\* failed or expired probe is not tried again.
C14_OneAttempt == []C14_OneTaskPerEntry /\ [][C14_NoRetry]_vars

\* A scrape of two outlets has returned; the probe of the first ran into its
\* deadline, the response of the second did not parse; each sent its one
\* observation.
C14_Witness ==
  \E s \in Scrapes :
    /\ collect[s].pc = "returned"
    /\ Len(task[s]) = 2
    /\ task[s][1].expired
    /\ task[s][2].err = "parse"
    /\ \A i \in Tasks(s) : task[s][i].pc = "done" /\ Len(ch[s][i]) = 1

\* --------------------------------------------------------------- claim C15

\* The body has been read and is a JSON object in which some of the numeric
\* leaves are absent (and none has a value of another type).
LacksFields(body) ==
  /\ body.kind = "object"
  /\ body.other = {}
  /\ DOMAIN body.leaves # StatusFields

\* Parsing such a body is no error: the probe succeeds, the leaves present
\* have their values and the absent ones are 0.
C15_ReadTolerant ==
  \A s \in Scrapes : \A i \in Tasks(s) :
    (ReadDone(s, i) /\ LacksFields(task[s][i].body)) =>
      /\ ~Failed(task'[s][i])
      /\ \A f \in StatusFields :
           task'[s][i].status[f] =
             IF f \in DOMAIN task[s][i].body.leaves THEN task[s][i].body.leaves[f] ELSE 0

\* An outlet whose probe succeeded with a status in which a field is 0 gets
\* all 12 observations with tasmota_up = 1, and tasmota_on = 0 when the
\* field is Power.
C15_ZeroFieldsObserved ==
  \A s \in Scrapes : \A i \in Tasks(s) :
    LET t == task[s][i]
    IN  (~Failed(t) /\ Finished(t) /\ UniqueName(i)
         /\ \E f \in StatusFields : t.status[f] = 0) =>
          /\ \A g \in GaugeNames : ObsOf(s, i, g) # {}
          /\ \A n \in ObsOf(s, i, "tasmota_up") : ch[s][i][n].value = 1
          /\ t.status.Power = 0 =>
               \A n \in ObsOf(s, i, "tasmota_on") : ch[s][i][n].value = 0

\* C15: a body that is valid JSON and lacks expected numeric fields is a
\* successful probe whose missing fields are 0; the outlet gets tasmota_up = 1,
\* tasmota_on = 0 when Power is absent, and all 12 observations.
C15_TolerantParsing == [][C15_ReadTolerant]_vars /\ []C15_ZeroFieldsObserved

\* --------------------------------------------------------------- claim C16

\* C16: what a goroutine whose probe succeeded has sent is tasmota_up first,
\* tasmota_on second and measurement gauges after them, so every tasmota_on
\* and measurement observation of an outlet comes after a tasmota_up
\* observation of that outlet.
C16_UpThenOnThenMeasurements ==
  \A s \in Scrapes : \A i \in Tasks(s) :
    /\ ~Failed(task[s][i]) =>
         \A n \in 1..Len(ch[s][i]) :
           ch[s][i][n].metric = IF n = 1 THEN "tasmota_up"
                                ELSE IF n = 2 THEN "tasmota_on"
                                ELSE GaugeOrder[n]
    /\ \A n \in 1..Len(ch[s][i]) :
         ch[s][i][n].metric # "tasmota_up" =>
           /\ ch[s][i][n].metric \in {"tasmota_on"} \cup MeasurementGauges
           /\ \E m \in 1..(n - 1) :
                /\ ch[s][i][m].metric = "tasmota_up"
                /\ ch[s][i][m].outlet = ch[s][i][n].outlet

\* Two reachable outlets of one scrape are both in the middle of their
\* observations: the first has sent tasmota_up only, the second has sent
\* measurements and has more to send.
C16_Witness ==
  \E s \in Scrapes :
    /\ Len(task[s]) = 2
    /\ outlets[1].Name # outlets[2].Name
    /\ ~Failed(task[s][1]) /\ ~Failed(task[s][2])
    /\ Len(ch[s][1]) = 1
    /\ Len(ch[s][2]) \in 3..11

\* --------------------------------------------------------------- claim C17

Labels == {outlets[j].Name : j \in 1..Len(outlets)}

\* The goroutines of invocation s that write under label l.
Writers(s, l) == {i \in Tasks(s) : task[s][i].outlet.Name = l}

NamesDistinct == \A j \in 1..Len(outlets) : UniqueName(j)

\* The cell of gauge g under label l after the step is not what it was
\* before the step.
CellChanged(g, l) ==
  IF l \in DOMAIN gaugeVec[g]
  THEN l \notin DOMAIN gaugeVec'[g] \/ gaugeVec'[g][l] # gaugeVec[g][l]
  ELSE l \in DOMAIN gaugeVec'[g]

\* A goroutine's Set stores its value in the cell of its gauge and label,
\* whatever was there, and a cell changes by such a Set only: the cell holds
\* what the last goroutine to write it wrote.
C17_LastWriteWins ==
  /\ \A s \in Scrapes : \A i \in Tasks(s) :
       SetGauge(s, i) =>
         ReadChild(gaugeVec'[BlockGauge(task[s][i])], task[s][i].outlet.Name)
           = BlockValue(task[s][i])
  /\ \A g \in GaugeNames :
       /\ DOMAIN gaugeVec'[g] \subseteq Labels
       /\ \A l \in Labels :
            CellChanged(g, l) =>
              \E s \in Scrapes : \E i \in Writers(s, l) :
                /\ task[s][i].pc = "set" /\ task'[s][i].pc = "collect"
                /\ BlockGauge(task[s][i]) = g
                /\ gaugeVec'[g][l] = BlockValue(task[s][i])

\* Once the loop of an invocation is over, the cells of a label are written
\* by one goroutine of the invocation when the names are pairwise distinct,
\* and by every goroutine whose outlet has the name otherwise.
C17_WritersPerLabel ==
  \A s \in Scrapes :
    collect[s].pc \in {"wait", "returned"} =>
      \A l \in Labels :
        /\ Cardinality(Writers(s, l))
             = Cardinality({j \in 1..Len(outlets) : outlets[j].Name = l})
        /\ NamesDistinct => Cardinality(Writers(s, l)) = 1

\* C17: two outlets that share a name write the same cells and a cell holds
\* the value of the goroutine that wrote it last; with pairwise distinct
\* names each cell is written by one goroutine of a scrape.
C17_DuplicateNames == [][C17_LastWriteWins]_vars /\ []C17_WritersPerLabel

\* A scrape of two outlets that share a name has returned; the first
\* reported a power of 45.2 W, the second of 0 W.  tasmota_on holds the
\* first's value (it wrote last) and tasmota_power_watts the second's (it
\* wrote last): both orders, in one scrape.
C17_Witness ==
  \E s \in Scrapes :
    /\ collect[s].pc = "returned"
    /\ Len(task[s]) = 2
    /\ outlets[1].Name = outlets[2].Name
    /\ ~Failed(task[s][1]) /\ ~Failed(task[s][2])
    /\ task[s][1].status.Power = 452 /\ task[s][2].status.Power = 0
    /\ ReadChild(gaugeVec["tasmota_on"], outlets[1].Name) = 1
    /\ ReadChild(gaugeVec["tasmota_power_watts"], outlets[1].Name) = 0

\* --------------------------------------------------------------- claim C18

\* C18: every observation a scrape holds for an outlet carries the value of
\* that scrape's own probe of the outlet (0 for tasmota_up of a failed probe),
\* also when scrapes overlap; no outlet has tasmota_up = 0 with measurement
\* observations, or tasmota_up = 1 without them.
C18_CoherentSnapshot ==
  \A s \in Scrapes : \A i \in Tasks(s) :
    LET t == task[s][i]
    IN  UniqueName(i) =>
          /\ \A n \in 1..Len(ch[s][i]) :
               ch[s][i][n].value = IF Failed(t) THEN 0 ELSE SuccessValue(n, t.status)
          /\ Finished(t) =>
               \A n \in ObsOf(s, i, "tasmota_up") :
                 /\ ch[s][i][n].value = 0 => Len(ch[s][i]) = 1
                 /\ ch[s][i][n].value = 1 => Len(ch[s][i]) = 12

\* --------------------------------------------------------------- claim C19

\* C19: a step of the goroutine of a failed probe changes no stored value
\* but tasmota_up under its outlet's label, which its Set makes 0: the other
\* 11 gauges keep under that label what they had, and nothing changes under
\* another label.
C19_FailedProbeFrame ==
  \A s \in Scrapes : \A i \in Tasks(s) :
    FailedStep(s, i) =>
      /\ \A g \in GaugeNames : DOMAIN gaugeVec[g] \subseteq DOMAIN gaugeVec'[g]
      /\ \A g \in GaugeNames : \A l \in Labels :
           CellChanged(g, l) =>
             /\ g = "tasmota_up"
             /\ l = outlets[i].Name
             /\ gaugeVec'[g][l] = 0
      /\ SetGauge(s, i) => gaugeVec'["tasmota_up"][outlets[i].Name] = 0

C19_FrameOfFailedProbe == [][C19_FailedProbeFrame]_vars

\* The outlet was reachable in a scrape that is over; in the next its probe
\* failed and its goroutine has just set tasmota_up to 0: tasmota_on and the
\* temperature are still those of the earlier scrape.
C19_Witness ==
  /\ collect[1].pc = "gathered"
  /\ Len(task[2]) = 1
  /\ Failed(task[2][1])
  /\ task[2][1].pc = "collect"
  /\ \A g \in GaugeNames : outlets[1].Name \in DOMAIN gaugeVec[g]
  /\ gaugeVec["tasmota_up"][outlets[1].Name] = 0
  /\ gaugeVec["tasmota_on"][outlets[1].Name] = 1
  /\ gaugeVec["tasmota_temperature_celsius"][outlets[1].Name] = 425

\* --------------------------------------------------------------- claim C20

\* C20: the collector is served (and Collect invoked) only when the flag is
\* non-empty and parseOutlets returned an outlet; when the flag is empty or
\* has no accepted entry, main ends before a collector exists.
C20_StartupGuard ==
  /\ mainpc = "serving" =>
       /\ flagOutlets # <<>>
       /\ Len(parseOutlets(flagOutlets)) >= 1
       /\ outlets = parseOutlets(flagOutlets)
  /\ (flagOutlets = <<>> \/ AcceptedEntries(flagOutlets) = {}) =>
       /\ mainpc \in {"start", "exit"}
       /\ outlets = <<>>
       /\ started = 0
       /\ \A g \in GaugeNames : gaugeVec[g] = NoChildren
  /\ mainpc = "exit" => flagOutlets = <<>> \/ AcceptedEntries(flagOutlets) = {}
  /\ started > 0 => mainpc = "serving" /\ Len(outlets) >= 1
  /\ \A s \in Scrapes : collect[s].pc # "idle" => Len(outlets) >= 1

\* main has ended on a flag that is not empty and has no valid entry.
C20_Witness ==
  /\ mainpc = "exit"
  /\ flagOutlets # <<>>
  /\ outlets = <<>>
  /\ started = 0

\* --------------------------------------------------------------- claim C21

\* A name or address as parseOutlets returns it: not empty, no white space
\* at its ends, no ',' and no ':' in it.
CleanField(f) ==
  /\ f # <<>>
  /\ ~IsSpace(f[1])
  /\ ~IsSpace(f[Len(f)])
  /\ \A p \in 1..Len(f) : f[p] \notin {",", ":"}

\* Entries of the flag value with two or more colons (name:host:port).
ColonEntries(str) ==
  {k \in 1..EntryCount(str) : Cardinality(ColonAt(EntryAt(str, k))) >= 2}

\* C21: every outlet parseOutlets returns has a clean name and a clean
\* address, and an entry written with more than one colon yields no outlet:
\* there are at most as many outlets as entries with at most one colon, and
\* none when every entry has two or more.
C21_OutputInvariant ==
  Parsed =>
    /\ \A n \in 1..Len(outlets) :
         CleanField(outlets[n].Name) /\ CleanField(outlets[n].IP)
    /\ Len(outlets) <= EntryCount(flagOutlets) - Cardinality(ColonEntries(flagOutlets))
    /\ Cardinality(ColonEntries(flagOutlets)) = EntryCount(flagOutlets) => outlets = <<>>

\* A flag value of two entries: the first, written with two colons, yielded
\* nothing; the second yielded its outlet, trimmed.
C21_Witness ==
  /\ mainpc = "serving"
  /\ flagOutlets = <<"a", ":", ":", ",", " ", "a", ":", "b">>
  /\ outlets = <<[Name |-> <<"a">>, IP |-> <<"b">>]>>

=============================================================================
